---- MODULE Spec2Model ----
(***************************************************************************)
(* A model of cryptokit's Transaction (src/cryptokit/transaction.py): the  *)
(* byte-level disassemble / assemble codec of a bitcoin transaction, the   *)
(* two caches (_raw, _hash) and the accessors that read them.              *)
(*                                                                         *)
(* Byte strings are sequences of integers 0..255.  Python's None is the    *)
(* sequence <<-1>>, which is no byte string.                               *)
(***************************************************************************)
EXTENDS Integers, Sequences, FiniteSets, TLC

VARIABLES
    version, inputs, outputs, locktime, fees,  \* the Transaction's fields
    _raw, _hash,                               \* its two caches
    op,        \* the last call made on the Transaction
    err,       \* the exception that call raised, OK when it returned
    arg,       \* the raw argument of that call (None when not given)
    ret,       \* the bytes it returned (assemble, raw, hash), else None
    retBool,   \* the boolean it returned (is_coinbase)
    view,      \* the mapping it returned (to_dict), else NoView
    declared   \* the script lengths the last disassemble read from the buffer

vars == <<version, inputs, outputs, locktime, fees, _raw, _hash,
          op, err, arg, ret, retBool, view, declared>>

obj == <<version, inputs, outputs, locktime, fees, _raw, _hash>>

fields == <<version, inputs, outputs, locktime>>

-----------------------------------------------------------------------------
(* Bounds of the model.                                                    *)

MaxInputs == 2
MaxOutputs == 1
MaxScriptLen == 2
MaxTrailing == 2

-----------------------------------------------------------------------------
(* Values.                                                                 *)

None == <<-1>>
NoFees == -1

OK == "none"
StructError == "struct.error"
AssertionError == "AssertionError"
TypeError == "TypeError"
IndexError == "IndexError"

HashLen == 32

Min(a, b) == IF a < b THEN a ELSE b

Rep(b, n) == [i \in 1..n |-> b]

\* Transaction._nullprev = b'\0' * 32
_nullprev == Rep(0, HashLen)

\* Python slices data[a:b] and data[a:], 0 <= a: they clamp, never fail.
Slice(s, a, b) == SubSeq(s, a + 1, Min(b, Len(s)))
From(s, a) == SubSeq(s, a + 1, Len(s))

-----------------------------------------------------------------------------
(* BitcoinEncoding: the fixed-width and variable-length integer codec.     *)

\* little-endian value of a byte string
RECURSIVE LE(_)
LE(bs) == IF bs = <<>> THEN 0 ELSE bs[1] + 256 * LE(Tail(bs))

\* funpack(fmt, bs) fails unless bs has exactly the width of fmt
funpack_ok(width, bs) == Len(bs) = width
funpack(width, bs) == LE(bs)

\* pack('<L', v) (width 4) and pack('<Q', v) (width 8)
RECURSIVE pack(_, _)
pack(width, v) ==
    IF width = 0 THEN <<>> ELSE <<v % 256>> \o pack(width - 1, v \div 256)

\* varlen_decode(bs) -> (value, rest); ok = FALSE when a read is short
varlen_decode(bs) ==
    LET fb == Slice(bs, 0, 1)
        wide(w) ==
            LET body == Slice(bs, 1, 1 + w)
            IN  IF funpack_ok(w, body)
                THEN [ok |-> TRUE, val |-> funpack(w, body), rest |-> From(bs, 1 + w)]
                ELSE [ok |-> FALSE, val |-> 0, rest |-> <<>>]
    IN  IF ~funpack_ok(1, fb) THEN [ok |-> FALSE, val |-> 0, rest |-> <<>>]
        ELSE IF fb[1] < 253 THEN [ok |-> TRUE, val |-> fb[1], rest |-> From(bs, 1)]
        ELSE IF fb[1] = 253 THEN wide(2)
        ELSE IF fb[1] = 254 THEN wide(4)
        ELSE wide(8)

\* varlen_encode(n): the smallest of the four tiers (n below 2^31 here)
varlen_encode(n) ==
    IF n < 253 THEN <<n>>
    ELSE IF n <= 65535 THEN <<253>> \o pack(2, n)
    ELSE <<254>> \o pack(4, n)

-----------------------------------------------------------------------------
(* hashlib.sha256 and binascii.hexlify.                                    *)

\* A stand-in digest: 32 bytes that depend on every byte of the message,
\* on its position and on the length of the message.
RECURSIVE Mix(_, _, _)
Mix(bs, lo, hi) ==
    IF lo > hi THEN 0
    ELSE IF lo = hi THEN (lo * (bs[lo] + 1)) % 65521
    ELSE (Mix(bs, lo, (lo + hi) \div 2) + Mix(bs, ((lo + hi) \div 2) + 1, hi)) % 65521

sha256(bs) ==
    LET m == Mix(bs, 1, Len(bs))
    IN  [i \in 1..32 |-> ((m + i) * (2 * i + 1)) % 256]

HexChars ==
    <<"0", "1", "2", "3", "4", "5", "6", "7",
      "8", "9", "a", "b", "c", "d", "e", "f">>

\* two hex digits for each byte, the high one first
hexlify(bs) ==
    [i \in 1..(2 * Len(bs)) |->
        IF i % 2 = 1 THEN HexChars[(bs[(i + 1) \div 2] \div 16) + 1]
        ELSE HexChars[(bs[i \div 2] % 16) + 1]]

\* bs[::-1]
Reverse(bs) == [i \in 1..Len(bs) |-> bs[Len(bs) + 1 - i]]

-----------------------------------------------------------------------------
(* Input and Output records.                                               *)

Input(prevout_hash, prevout_idx, script_sig, seqno) ==
    [prevout_hash |-> prevout_hash, prevout_idx |-> prevout_idx,
     script_sig |-> script_sig, seqno |-> seqno]

Output(amount, script_pub_key) ==
    [amount |-> amount, script_pub_key |-> script_pub_key]

-----------------------------------------------------------------------------
(* Transaction.disassemble, the part that walks the buffer.                *)

\* script_sig = data[:ss_len] and pk_script = data[:ps_len]
script_slice_short(data, n) == Slice(data, 0, IF n > 0 THEN n - 1 ELSE 0)
script_slice(data, n) == Slice(data, 0, n)

\* for i in range(input_count): ... self.inputs.append(Input(...))
\* ins and decl are the inputs appended and the script lengths read so far.
\* input_loop reads the hash and the index of one input, input_script the
\* rest of it, v being what varlen_decode(data[36:]) returned.
RECURSIVE input_loop(_, _, _, _), input_script(_, _, _, _, _)
input_loop(data, n, ins, decl) ==
    IF n = 0 THEN [err |-> OK, data |-> data, recs |-> ins, decl |-> decl]
    ELSE IF ~funpack_ok(4, Slice(data, 32, 36))
    THEN [err |-> StructError, data |-> data, recs |-> ins, decl |-> decl]
    ELSE input_script(data, n, ins, decl, varlen_decode(From(data, 36)))

input_script(data, n, ins, decl, v) ==
    IF ~v.ok
    THEN [err |-> StructError, data |-> data, recs |-> ins, decl |-> decl]
    ELSE IF ~funpack_ok(4, Slice(v.rest, v.val, v.val + 4))
    THEN [err |-> StructError, data |-> data, recs |-> ins,
          decl |-> Append(decl, v.val)]
    ELSE input_loop(From(v.rest, v.val + 4), n - 1,
                    Append(ins, Input(Slice(data, 0, 32),
                                      funpack(4, Slice(data, 32, 36)),
                                      script_slice(v.rest, v.val),
                                      funpack(4, Slice(v.rest, v.val, v.val + 4)))),
                    Append(decl, v.val))

\* for i in range(output_count): ... self.outputs.append(Output(...))
\* output_loop reads the amount of one output, output_script the rest of
\* it, v being what varlen_decode(data[8:]) returned.
RECURSIVE output_loop(_, _, _, _), output_script(_, _, _, _, _)
output_loop(data, n, outs, decl) ==
    IF n = 0 THEN [err |-> OK, data |-> data, recs |-> outs, decl |-> decl]
    ELSE IF ~funpack_ok(8, Slice(data, 0, 8))
    THEN [err |-> StructError, data |-> data, recs |-> outs, decl |-> decl]
    ELSE output_script(data, n, outs, decl, varlen_decode(From(data, 8)))

output_script(data, n, outs, decl, v) ==
    IF ~v.ok
    THEN [err |-> StructError, data |-> data, recs |-> outs, decl |-> decl]
    ELSE output_loop(From(v.rest, v.val), n - 1,
                     Append(outs, Output(funpack(8, Slice(data, 0, 8)),
                                         script_slice(v.rest, v.val))),
                     Append(decl, v.val))

\* self.locktime = funpack('<L', data[:4]); self._hash = None;
\* assert len(data) == 4.  stage 4: locktime and _hash were assigned.
locktime_step_assert_first(data) ==
    IF Len(data) # 4 THEN [err |-> AssertionError, stage |-> 3, locktime |-> 0]
    ELSE [err |-> OK, stage |-> 4, locktime |-> funpack(4, Slice(data, 0, 4))]
locktime_step_no_assert(data) ==
    IF ~funpack_ok(4, Slice(data, 0, 4))
    THEN [err |-> StructError, stage |-> 3, locktime |-> 0]
    ELSE [err |-> OK, stage |-> 4, locktime |-> funpack(4, Slice(data, 0, 4))]
locktime_step(data) ==
    IF ~funpack_ok(4, Slice(data, 0, 4))
    THEN [err |-> StructError, stage |-> 3, locktime |-> 0]
    ELSE IF Len(data) # 4
    THEN [err |-> AssertionError, stage |-> 4, locktime |-> funpack(4, Slice(data, 0, 4))]
    ELSE [err |-> OK, stage |-> 4, locktime |-> funpack(4, Slice(data, 0, 4))]

\* Lines 46-87 on the buffer data, as a record of what the walk assigned
\* to self before it ended (by returning or by raising).  stage counts the
\* assignments executed: 1 version, 2 inputs, 3 outputs, 4 locktime and
\* _hash.  From stage 2 on inputs holds the inputs appended so far, from
\* stage 3 on outputs the outputs appended so far.
NoParse ==
    [err |-> StructError, stage |-> 0, version |-> 0,
     inputs |-> <<>>, outputs |-> <<>>, locktime |-> 0,
     declIn |-> <<>>, declOut |-> <<>>]

\* lines 83-87, lt being the outcome of locktime_step
parse_locktime(p, lt) ==
    [p EXCEPT !.err = lt.err, !.stage = lt.stage, !.locktime = lt.locktime]

\* lines 73-81, ol being the outcome of the output loop
parse_outputs(p, ol) ==
    IF ol.err # OK
    THEN [p EXCEPT !.stage = 3, !.outputs = ol.recs, !.declOut = ol.decl]
    ELSE parse_locktime([p EXCEPT !.stage = 3, !.outputs = ol.recs,
                                  !.declOut = ol.decl],
                        locktime_step(ol.data))

\* line 72, oc being what varlen_decode returned for the output count
parse_output_count(p, oc) ==
    IF ~oc.ok THEN p
    ELSE parse_outputs(p, output_loop(oc.rest, oc.val, <<>>, <<>>))

\* lines 52-70, il being the outcome of the input loop
parse_inputs(p, il) ==
    IF il.err # OK
    THEN [p EXCEPT !.stage = 2, !.inputs = il.recs, !.declIn = il.decl]
    ELSE parse_output_count([p EXCEPT !.stage = 2, !.inputs = il.recs,
                                      !.declIn = il.decl],
                            varlen_decode(il.data))

\* line 49, ic being what varlen_decode returned for the input count
parse_input_count(p, ic) ==
    IF ~ic.ok THEN p
    ELSE parse_inputs(p, input_loop(ic.rest, ic.val, <<>>, <<>>))

\* line 46 and on
parse(data) ==
    IF ~funpack_ok(4, Slice(data, 0, 4)) THEN NoParse
    ELSE parse_input_count(
             [NoParse EXCEPT !.stage = 1, !.version = funpack(4, Slice(data, 0, 4))],
             varlen_decode(From(data, 4)))

-----------------------------------------------------------------------------
(* Transaction.assemble, the byte string it builds.                        *)

RECURSIVE assemble_inputs(_)
assemble_inputs(ins) ==
    IF ins = <<>> THEN <<>>
    ELSE Head(ins).prevout_hash \o pack(4, Head(ins).prevout_idx)
         \o varlen_encode(Len(Head(ins).script_sig)) \o Head(ins).script_sig
         \o pack(4, Head(ins).seqno) \o assemble_inputs(Tail(ins))

RECURSIVE assemble_outputs(_)
assemble_outputs(outs) ==
    IF outs = <<>> THEN <<>>
    ELSE pack(8, Head(outs).amount)
         \o varlen_encode(Len(Head(outs).script_pub_key))
         \o Head(outs).script_pub_key \o assemble_outputs(Tail(outs))

assemble_bytes(ver, ins, outs, lock) ==
    pack(4, ver) \o varlen_encode(Len(ins)) \o assemble_inputs(ins)
    \o varlen_encode(Len(outs)) \o assemble_outputs(outs) \o pack(4, lock)

-----------------------------------------------------------------------------
(* The buffers handed to the constructor and to disassemble.               *)

NullHash == Rep(0, HashLen)
OtherHash == Rep(0, HashLen - 1) \o <<1>>

\* The previous-output hashes of a transaction's inputs: one input, or
\* several of which the first and the last differ.
HashSeqs ==
    {<<NullHash>>, <<OtherHash>>}
    \cup {<<h>> \o Rep(OtherHash, k - 2) \o <<g>> :
              k \in 2..MaxInputs,
              h \in {NullHash, OtherHash}, g \in {NullHash, OtherHash}}

\* a count or length n written in the 0xfd tier, whatever its size
VarWide(n) == <<253>> \o pack(2, n)
Var(n, wide) == IF wide THEN VarWide(n) ELSE varlen_encode(n)

\* the field values of every generated transaction
WireVersion == pack(4, 2)
WireIdx == pack(4, 3)
WireSeqno == pack(4, 16909060)
WireAmount == pack(8, 5000)
WireLocktime == pack(4, 500)
Script(n) == Rep(172, n)
Garbage(k) == Rep(238, k)

RECURSIVE WireInputs(_, _, _)
WireInputs(hs, slen, wl) ==
    IF hs = <<>> THEN <<>>
    ELSE Head(hs) \o WireIdx \o Var(slen, wl) \o Script(slen)
         \o WireSeqno \o WireInputs(Tail(hs), slen, wl)

RECURSIVE WireOutputs(_, _, _)
WireOutputs(n, slen, wl) ==
    IF n = 0 THEN <<>>
    ELSE WireAmount \o Var(slen, wl) \o Script(slen) \o WireOutputs(n - 1, slen, wl)

\* The wire form of a transaction description d; the input count is
\* written as Len(d.hs) + di and the output count as d.nout + do.
Wire(d, di, do) ==
    WireVersion \o Var(Len(d.hs) + di, d.wc)
    \o WireInputs(d.hs, d.slen, d.wl)
    \o Var(d.nout + do, d.wc) \o WireOutputs(d.nout, d.slen, d.wl)
    \o WireLocktime

Desc(hs, slen, nout, wc, wl) ==
    [hs |-> hs, slen |-> slen, nout |-> nout, wc |-> wc, wl |-> wl]

\* well formed, every varint minimal
Canonical ==
    {Desc(hs, MaxScriptLen, MaxOutputs, FALSE, FALSE) : hs \in HashSeqs}
    \cup {Desc(<<>>, 0, 0, FALSE, FALSE)}

\* well formed, the counts or the script lengths in a wider tier
Wide ==
    {Desc(<<OtherHash>>, MaxScriptLen, MaxOutputs, TRUE, FALSE),
     Desc(<<OtherHash>>, MaxScriptLen, MaxOutputs, FALSE, TRUE)}

WellFormed == {Wire(d, 0, 0) : d \in Canonical \cup Wide}

\* the transaction that is damaged below
Whole == Wire(Desc(<<OtherHash>>, MaxScriptLen, MaxOutputs, FALSE, FALSE), 0, 0)
CutOff(bs, k) == SubSeq(bs, 1, Len(bs) - k)

\* 0 to 3 bytes left for the lock time
CutLocktime == {CutOff(Whole, k) : k \in 1..4}

\* the buffer ends inside the last output's script
CutOutScript == {CutOff(Whole, 4 + k) : k \in 1..MaxScriptLen}

\* the buffer ends inside the first input's script
CutInScript ==
    {WireVersion \o <<1>> \o OtherHash \o WireIdx
     \o <<n>> \o Script(n - 1) : n \in 1..MaxScriptLen}

\* k bytes after the lock time
Trailing == {Whole \o Garbage(k) : k \in 1..MaxTrailing}

\* a count one larger than the records that follow
BadCount ==
    {Wire(Desc(<<OtherHash>>, MaxScriptLen, MaxOutputs, FALSE, FALSE), di, 1 - di) :
        di \in {0, 1}}

Buffers ==
    WellFormed \cup CutLocktime \cup CutOutScript \cup CutInScript
    \cup Trailing \cup BadCount

Fees == {0, 7}

\* parse, computed once for each buffer of Buffers
ParseTable == [b \in Buffers |-> parse(b)]
parse_of(data) == IF data \in Buffers THEN ParseTable[data] ELSE parse(data)

-----------------------------------------------------------------------------
(* The Transaction object.                                                 *)

NoView ==
    [inputs |-> <<>>, outputs |-> <<>>, data |-> <<>>, locktime |-> 0,
     version |-> 0, hash |-> <<>>]

NoDecl == [ins |-> <<>>, outs |-> <<>>]

\* what a call leaves in the observation variables, unless it says otherwise
Observe(o, e, a) ==
    /\ op' = o
    /\ err' = e
    /\ arg' = a

\* __init__(raw): every field at its default, then disassemble() when raw
\* is given.  A constructor that raises binds no object, so the objects
\* there are to call are the empty one and those of the buffers that
\* disassemble.
InitEmpty ==
    /\ _raw = None
    /\ inputs = <<>>
    /\ outputs = <<>>
    /\ locktime = 0
    /\ fees = NoFees
    /\ version = 1
    /\ _hash = None
    /\ op = "construct"
    /\ err = OK
    /\ arg = None
    /\ ret = None
    /\ retBool = FALSE
    /\ view = NoView
    /\ declared = NoDecl

InitFrom(b) ==
    LET p == parse_of(b)
    IN  /\ p.err = OK
        /\ _raw = b
        /\ inputs = p.inputs
        /\ outputs = p.outputs
        /\ locktime = p.locktime
        /\ fees = NoFees
        /\ version = p.version
        /\ _hash = None
        /\ op = "construct"
        /\ err = OK
        /\ arg = b
        /\ ret = None
        /\ retBool = FALSE
        /\ view = NoView
        /\ declared = [ins |-> p.declIn, outs |-> p.declOut]

Init == InitEmpty \/ \E b \in Buffers : InitFrom(b)

\* lines 39-43: data is raw when raw is given, else self._raw
data_of(raw) == IF raw # None THEN raw ELSE _raw

\* t.disassemble(raw, dump_raw, fee); raw = None and fee = 0 are the
\* defaults.  Every assignment executed before an exception stays.
disassemble(raw, dump_raw, fee) ==
    LET p == parse_of(data_of(raw))
    IN  /\ fees' = IF fee # 0 THEN fee ELSE fees
        /\ ret' = None
        /\ retBool' = FALSE
        /\ view' = NoView
        /\ IF data_of(raw) = None
           THEN \* data[:4] on None
                /\ Observe("disassemble", TypeError, raw)
                /\ declared' = NoDecl
                /\ UNCHANGED <<version, inputs, outputs, locktime, _raw, _hash>>
           ELSE /\ Observe("disassemble", p.err, raw)
                /\ declared' = [ins |-> p.declIn, outs |-> p.declOut]
                /\ version' = IF p.stage >= 1 THEN p.version ELSE version
                /\ inputs' = IF p.stage >= 2 THEN p.inputs ELSE inputs
                /\ outputs' = IF p.stage >= 3 THEN p.outputs ELSE outputs
                /\ locktime' = IF p.stage >= 4 THEN p.locktime ELSE locktime
                /\ _hash' = IF p.stage >= 4 THEN None ELSE _hash
                /\ _raw' = IF p.err = OK /\ dump_raw THEN None ELSE data_of(raw)

\* t.assemble()
assemble ==
    LET data == assemble_bytes(version, inputs, outputs, locktime)
    IN  /\ _raw' = data
        /\ _hash' = None
        /\ Observe("assemble", OK, None)
        /\ ret' = data
        /\ retBool' = FALSE
        /\ view' = NoView
        /\ declared' = NoDecl
        /\ UNCHANGED <<version, inputs, outputs, locktime, fees>>

\* t.raw
raw ==
    LET data == assemble_bytes(version, inputs, outputs, locktime)
    IN  /\ _raw' = IF _raw = None THEN data ELSE _raw
        /\ _hash' = IF _raw = None THEN None ELSE _hash
        /\ Observe("raw", OK, None)
        /\ ret' = _raw'
        /\ retBool' = FALSE
        /\ view' = NoView
        /\ declared' = NoDecl
        /\ UNCHANGED <<version, inputs, outputs, locktime, fees>>

\* what the hash property does to _hash and what it returns
hash_value == IF _hash = None THEN sha256(sha256(_raw)) ELSE _hash
hash_fails == _hash = None /\ _raw = None

\* t.hash
hash ==
    /\ retBool' = FALSE
    /\ view' = NoView
    /\ declared' = NoDecl
    /\ UNCHANGED <<version, inputs, outputs, locktime, fees, _raw>>
    /\ IF hash_fails
       THEN \* sha256(None)
            /\ Observe("hash", TypeError, None)
            /\ ret' = None
            /\ UNCHANGED _hash
       ELSE /\ Observe("hash", OK, None)
            /\ _hash' = hash_value
            /\ ret' = hash_value

\* t.is_coinbase
coinbase_of_last(ins) == ins[Len(ins)].prevout_hash = _nullprev
coinbase_of(ins) == ins[1].prevout_hash = _nullprev

is_coinbase ==
    /\ ret' = None
    /\ view' = NoView
    /\ declared' = NoDecl
    /\ UNCHANGED obj
    /\ IF inputs = <<>>
       THEN \* self.inputs[0] on an empty list
            /\ Observe("is_coinbase", IndexError, None)
            /\ retBool' = FALSE
       ELSE /\ Observe("is_coinbase", OK, None)
            /\ retBool' = coinbase_of(inputs)

\* t.to_dict(): the entries are evaluated in order, 'data' before 'hash'
to_dict ==
    /\ ret' = None
    /\ retBool' = FALSE
    /\ declared' = NoDecl
    /\ UNCHANGED <<version, inputs, outputs, locktime, fees, _raw>>
    /\ IF _raw = None
       THEN \* hexlify(None)
            /\ Observe("to_dict", TypeError, None)
            /\ view' = NoView
            /\ UNCHANGED _hash
       ELSE /\ Observe("to_dict", OK, None)
            /\ _hash' = hash_value
            /\ view' =
                 [inputs |-> [i \in 1..Len(inputs) |->
                                [prevout_hash |-> hexlify(inputs[i].prevout_hash),
                                 prevout_idx |-> inputs[i].prevout_idx,
                                 script_sig |-> hexlify(inputs[i].script_sig),
                                 seqno |-> inputs[i].seqno]],
                  outputs |-> [i \in 1..Len(outputs) |->
                                [amount |-> outputs[i].amount,
                                 script_pub_key |-> hexlify(outputs[i].script_pub_key)]],
                  data |-> hexlify(_raw),
                  locktime |-> locktime,
                  version |-> version,
                  hash |-> hexlify(Reverse(hash_value))]

Next ==
    \/ \E b \in Buffers \cup {None}, dump_raw \in BOOLEAN, fee \in Fees :
           disassemble(b, dump_raw, fee)
    \/ assemble
    \/ raw
    \/ hash
    \/ is_coinbase
    \/ to_dict

Spec == Init /\ [][Next]_vars

-----------------------------------------------------------------------------
(* The claims.                                                             *)

\* assemble() of the fields as they are
Assembled == assemble_bytes(version, inputs, outputs, locktime)
\* what the raw property returns in this state
RawValue == IF _raw = None THEN Assembled ELSE _raw
DHash(bs) == sha256(sha256(bs))
\* the exceptions of the code, by the names the specification gives them
TruncatedInput == StructError
MalformedTransaction == AssertionError
Disassembled == op \in {"construct", "disassemble"} /\ err = OK

\* C1: a buffer that disassemble accepts, narrow or wide varints alike, is
\* what assemble returns for the transaction disassembled from it.  The
\* buffer is the one _raw retains after the call.
C1_RoundTripExact ==
    (Disassembled /\ _raw # None) => Assembled = _raw

\* C2: a disassemble that fails leaves version, inputs, outputs, lock_time,
\* fee, the cached raw buffer and the cached hash as they were before.
C2_FailedDisassembleKeepsState ==
    [][(op' = "disassemble" /\ err' # OK) => UNCHANGED obj]_vars

\* C3: hash is never read stale: every value hash returns is the double
\* hash of what raw returns at that moment (the claim adds that this raw
\* value is the serialisation of the current fields).
C3_CachesNeverStale ==
    (op = "hash" /\ err = OK) => ret = DHash(RawValue)

\* C4: with the cached raw buffer absent, reading hash does not fail: it
\* returns the 32-byte double hash of the buffer assembled from the fields.
C4_HashRebuildsRaw ==
    [][(_raw = None /\ op' = "hash")
          => (err' = OK /\ Len(ret') = 32 /\ ret' = DHash(Assembled))]_vars

\* C5: a complete well-formed transaction followed by one or more bytes
\* after the lock time is rejected with MalformedTransaction.
C5_TrailingRejected ==
    (op = "disassemble" /\ arg \in Trailing) => err = MalformedTransaction

C5_Witness ==
    /\ op = "disassemble"
    /\ arg \in Trailing
    /\ err = MalformedTransaction
    /\ Len(arg) = Len(Whole) + MaxTrailing

\* C6: a buffer whose version, inputs and outputs are well formed and that
\* has 0 to 3 bytes left for the lock time is rejected with TruncatedInput.
C6_TruncatedLocktime ==
    (op = "disassemble" /\ arg \in CutLocktime) => err = TruncatedInput

C6_Witness ==
    /\ op = "disassemble"
    /\ arg = CutOff(Whole, 2)
    /\ err = TruncatedInput

\* C7: a declared input or output count larger than the records the rest
\* of the buffer can hold is rejected with MalformedTransaction before any
\* record is parsed or appended.
C7_CountBound ==
    [][(op' = "disassemble" /\ arg' \in BadCount)
          => /\ err' = MalformedTransaction
             /\ inputs' \in {inputs, <<>>}
             /\ outputs' \in {outputs, <<>>}]_vars

\* C8: with at least one input, is_coinbase is true exactly when the first
\* input's previous-output hash is 32 zero bytes.
FirstHashIsZero ==
    /\ Len(inputs[1].prevout_hash) = 32
    /\ \A i \in 1..32 : inputs[1].prevout_hash[i] = 0

C8_CoinbaseIffFirstNull ==
    (op = "is_coinbase" /\ inputs # <<>>)
        => (err = OK /\ (retBool <=> FirstHashIsZero))

C8_Witness ==
    /\ op = "is_coinbase"
    /\ err = OK
    /\ Len(inputs) > 1
    /\ retBool
    /\ inputs[Len(inputs)].prevout_hash # inputs[1].prevout_hash

\* C9: to_dict returns the hex of what the raw accessor returns and the
\* little-endian hex of its double hash, also when the cached raw buffer is
\* absent, and leaves version, inputs, outputs and lock_time unchanged.
C9_ViewReadsAccessors ==
    [][op' = "to_dict"
          => /\ err' = OK
             /\ view'.data = hexlify(RawValue)
             /\ view'.hash = hexlify(Reverse(DHash(RawValue)))
             /\ UNCHANGED fields]_vars

\* C10: after a disassemble that returns, every unlocking and locking
\* script has the length its varint declared; a buffer that ends inside a
\* declared script makes disassemble raise.
C10_DeclaredLengths ==
    /\ Disassembled =>
          /\ Len(declared.ins) = Len(inputs)
          /\ Len(declared.outs) = Len(outputs)
          /\ \A i \in 1..Len(inputs) : Len(inputs[i].script_sig) = declared.ins[i]
          /\ \A i \in 1..Len(outputs) :
                 Len(outputs[i].script_pub_key) = declared.outs[i]
    /\ (op = "disassemble" /\ arg \in CutInScript \cup CutOutScript) => err # OK

C10_Witness ==
    /\ op = "disassemble"
    /\ err = OK
    /\ inputs # <<>>
    /\ outputs # <<>>
    /\ Len(inputs[1].script_sig) = MaxScriptLen
    /\ Len(outputs[1].script_pub_key) = MaxScriptLen
    /\ declared.ins[1] = MaxScriptLen

====
